---- MODULE Spec2Model ----
(***************************************************************************)
(* Model of the ladder engine of ladder_bot.py: LadderRepository (JSON     *)
(* persistence through a temporary file and os.replace) and LadderService  *)
(* (players, pairings, round, history, promotion rule, identifier          *)
(* resolution).                                                            *)
(*                                                                         *)
(* Text is modelled as a sequence of one-character strings so that strip,  *)
(* isdigit, int, lower, the mention pattern and substring search are       *)
(* computed and not assumed.  Indices are 0-based where the code's are;    *)
(* At(seq, i) reads seq[i] of the Python list.                             *)
(***************************************************************************)
EXTENDS Integers, Sequences, FiniteSets, Bags, TLC

VARIABLES
    players,    \* self._state["players"]: list of {"name", "user_id"}
    pairings,   \* self._state["pairings"]: list of (first_rank, second_rank)
    round,      \* self._state["round"]
    history,    \* self._state["history"]: list of history entries
    rule,       \* self._rule
    state_type, \* type of self._state: "dict", or "list" when load() returned an array
    file,       \* content of the canonical path (file_path), or Absent
    tmp,        \* content of file_path + ".tmp", or Absent
    pc,         \* position of the process inside LadderRepository.save
    old,        \* content of the canonical path when the running save began
    observed,   \* what the latest read of the canonical path returned
    calls,      \* number of calls made so far (bounds the length of a run)
    last        \* the latest call: operation, arguments, outcome

vars ==
    <<players, pairings, round, history, rule, state_type, file, tmp, pc, old, observed, calls, last>>

-----------------------------------------------------------------------------
(* Bounds of the model *)

MaxPlayers == 3
MaxRound == 2
MaxHistory == 2
MaxCalls == 4
MaxSaves == 2
MaxResolves == 1
MaxLoadCalls == 2
MaxReopenCalls == 3

-----------------------------------------------------------------------------
(* Values *)

\* Python None in an Optional[int] position (user_id, reporter_id)
NoneId == -1

Absent == [members |-> <<>>, closed |-> FALSE, exists |-> FALSE, json |-> "object"]

Rules == {"SWAP_ONLY", "ONE_STEP_ALWAYS", "BOGUS"}

Names == { <<"A", "l">>, <<"B", "o">> }

UserIds == {NoneId, 7}

ReporterIds == {123}

Scores == { "6-3 6-4" }

Timestamps == { "t" }

\* identifier tokens handed to remove_player and set_rank
Identifiers ==
    { <<"1">>, <<"2">>, <<"9">>, <<" ", "3", " ">>,
      <<"<", "@", "7", ">">>, <<"<", "@", "!", "8", ">">>,
      <<"a", "l">>, <<"B", "O">>, <<"o">>, <<"z">>,
      <<" ">>, <<"sup2">> }

RankInputs == 0 .. (MaxPlayers + 1)

LimitInputs == 0 .. (MaxHistory + 1)

-----------------------------------------------------------------------------
(* Python list and text primitives *)

\* seq[i] for a 0-based index i
At(seq, i) == seq[i + 1]

\* a swap written as two plain assignments: the first one overwrites seq[a]
SwapOverwriting(seq, a, b) ==
    [k \in 1 .. Len(seq) |-> IF k = a + 1 THEN seq[b + 1] ELSE seq[k]]

\* seq[a], seq[b] = seq[b], seq[a] for 0-based a and b
Swap(seq, a, b) ==
    [k \in 1 .. Len(seq) |->
        IF k = a + 1 THEN seq[b + 1]
        ELSE IF k = b + 1 THEN seq[a + 1]
        ELSE seq[k]]

\* del seq[i] / seq.pop(i) for a 0-based index i in range
DelAt(seq, i) ==
    [k \in 1 .. (Len(seq) - 1) |-> IF k <= i THEN seq[k] ELSE seq[k + 1]]

\* seq.insert(i, x) for 0 <= i <= len(seq)
InsertAt(seq, i, x) ==
    [k \in 1 .. (Len(seq) + 1) |->
        IF k <= i THEN seq[k]
        ELSE IF k = i + 1 THEN x
        ELSE seq[k - 1]]

\* seq[start:] with Python's handling of a negative or too large start
SliceFrom(seq, start) ==
    LET n == Len(seq)
        s0 == IF start < 0 THEN start + n ELSE start
        s1 == IF s0 < 0 THEN 0 ELSE IF s0 > n THEN n ELSE s0
    IN  SubSeq(seq, s1 + 1, n)

Digits == {"0", "1", "2", "3", "4", "5", "6", "7", "8", "9"}

\* characters for which str.isdigit() is true: the decimal digits and digit-like
\* characters such as superscript two ("sup2"), which int() rejects
DigitLike == Digits \cup {"sup2"}

Whitespace == {" "}

DigitValue(c) ==
    CASE c = "0" -> 0 [] c = "1" -> 1 [] c = "2" -> 2 [] c = "3" -> 3
      [] c = "4" -> 4 [] c = "5" -> 5 [] c = "6" -> 6 [] c = "7" -> 7
      [] c = "8" -> 8 [] c = "9" -> 9

LowerChar(c) ==
    CASE c = "A" -> "a" [] c = "B" -> "b" [] c = "O" -> "o" [] c = "L" -> "l"
      [] OTHER -> c

\* str.lower()
Lower(text) == [k \in 1 .. Len(text) |-> LowerChar(text[k])]

RECURSIVE LStrip(_)
LStrip(text) ==
    IF Len(text) > 0 /\ text[1] \in Whitespace THEN LStrip(Tail(text)) ELSE text

RECURSIVE RStrip(_)
RStrip(text) ==
    IF Len(text) > 0 /\ text[Len(text)] \in Whitespace
    THEN RStrip(SubSeq(text, 1, Len(text) - 1))
    ELSE text

\* str.strip()
Strip(text) == RStrip(LStrip(text))

\* str.isdigit()
IsDigit(text) == Len(text) > 0 /\ \A k \in 1 .. Len(text) : text[k] \in DigitLike

\* whether int(text) accepts the text (decimal digits only)
IntAccepts(text) == Len(text) > 0 /\ \A k \in 1 .. Len(text) : text[k] \in Digits

RECURSIVE ToInt(_)
\* int(text) for a text of decimal digits
ToInt(text) ==
    IF Len(text) = 0 THEN 0
    ELSE 10 * ToInt(SubSeq(text, 1, Len(text) - 1)) + DigitValue(text[Len(text)])

\* re.fullmatch(r"<@!?(\d+)>", text): the digits of group 1, or <<>> for no match
MentionDigits(text) ==
    LET n == Len(text)
        from == IF n >= 3 /\ text[3] = "!" THEN 4 ELSE 3
        body == SubSeq(text, from, n - 1)
    IN  IF /\ n >= 4
           /\ text[1] = "<" /\ text[2] = "@" /\ text[n] = ">"
           /\ Len(body) > 0
           /\ \A k \in 1 .. Len(body) : body[k] \in Digits
        THEN body
        ELSE <<>>

\* sub in text
Contains(sub, text) ==
    \E k \in 0 .. (Len(text) - Len(sub)) : SubSeq(text, k + 1, k + Len(sub)) = sub

\* the smallest member of a non-empty set of integers
MinOf(S) == CHOOSE x \in S : \A y \in S : x <= y

-----------------------------------------------------------------------------
(* LadderService._resolve_player_index *)

Unresolved == [tag |-> "none", idx |-> 0]
Resolved(i) == [tag |-> "index", idx |-> i]
ValueErrorRaised == [tag |-> "ValueError", idx |-> 0]

ResolveRankNumber(ps, text) ==
    IF ~IntAccepts(text) THEN ValueErrorRaised
    ELSE LET idx == ToInt(text) - 1
         IN  IF 0 <= idx /\ idx < Len(ps) THEN Resolved(idx) ELSE Unresolved

\* a mention that finds no linked player tried as a name
ResolveMentionThenName(ps, digits) ==
    LET target_id == ToInt(digits)
        hits == {i \in 0 .. (Len(ps) - 1) : At(ps, i).user_id = target_id}
        named == {i \in 0 .. (Len(ps) - 1) :
                     \/ At(ps, i).name = <<"<", "@">> \o digits \o <<">">>
                     \/ At(ps, i).name = <<"<", "@", "!">> \o digits \o <<">">>}
    IN  IF hits # {} THEN Resolved(MinOf(hits))
        ELSE IF named # {} THEN Resolved(MinOf(named))
        ELSE Unresolved

ResolveMention(ps, digits) ==
    LET target_id == ToInt(digits)
        hits == {i \in 0 .. (Len(ps) - 1) : At(ps, i).user_id = target_id}
    IN  IF hits # {} THEN Resolved(MinOf(hits)) ELSE Unresolved

\* name matching that takes the first name containing the text
ResolveNameFirstPartial(ps, text) ==
    LET lowered == Lower(text)
        matches == {i \in 0 .. (Len(ps) - 1) : Contains(lowered, Lower(At(ps, i).name))}
    IN  IF matches # {} THEN Resolved(MinOf(matches)) ELSE Unresolved

ResolveName(ps, text) ==
    LET lowered == Lower(text)
        exact == {i \in 0 .. (Len(ps) - 1) : Lower(At(ps, i).name) = lowered}
        matches == {i \in 0 .. (Len(ps) - 1) : Contains(lowered, Lower(At(ps, i).name))}
    IN  IF exact # {} THEN Resolved(MinOf(exact))
        ELSE IF Cardinality(matches) = 1 THEN Resolved(MinOf(matches))
        ELSE Unresolved

ResolvePlayerIndex(ps, identifier) ==
    LET text == Strip(identifier)
    IN  IF Len(text) = 0 THEN Unresolved
        ELSE IF IsDigit(text) THEN ResolveRankNumber(ps, text)
        ELSE IF MentionDigits(text) # <<>> THEN ResolveMention(ps, MentionDigits(text))
        ELSE ResolveName(ps, text)

-----------------------------------------------------------------------------
(* LadderRepository: the persisted document *)

\* json.dump(state): the object's members in key order; a document under
\* construction holds a prefix of them and is not closed
Members(ps, prs, rnd, hist) ==
    << <<"players", ps>>, <<"pairings", prs>>, <<"round", rnd>>, <<"history", hist>> >>

Document(ps, prs, rnd, hist) ==
    [members |-> Members(ps, prs, rnd, hist), closed |-> TRUE, exists |-> TRUE, json |-> "object"]

\* json.load succeeds only on a closed document; open() only on an existing file
Parses(doc) == doc.exists /\ doc.closed

\* dict.get(key, default) / dict.setdefault(key, default) on the parsed object
Member(doc, key, default) ==
    LET hits == {k \in 1 .. Len(doc.members) : doc.members[k][1] = key}
    IN  IF hits = {} THEN default ELSE doc.members[MinOf(hits)][2]

DefaultState == Document(<<>>, <<>>, 0, <<>>)

\* load() handing out the default state whatever the file holds
LoadAlwaysDefault(doc) == DefaultState

\* LadderRepository.load: whatever json.load returns, or the default state
Load(doc) == IF Parses(doc) THEN doc ELSE DefaultState

\* the Python type of the value load() returned
StateType(doc) == IF doc.json = "array" THEN "list" ELSE "dict"

\* save() called before the call has changed the state
PersistBeforeMutation ==
    /\ file' = Document(players, pairings, round, history)
    /\ tmp' = Absent
    /\ UNCHANGED <<pc, old, observed>>

\* LadderRepository.save as one step: the temporary file is written in full and
\* renamed over the canonical path
Persist ==
    /\ file' = Document(players', pairings', round', history')
    /\ tmp' = Absent
    /\ UNCHANGED <<pc, old, observed>>

\* a call that returns or raises before it reaches self.save()
NoPersist == UNCHANGED <<file, tmp, pc, old, observed>>

-----------------------------------------------------------------------------
(* LadderService operations: the effect on the in-memory state *)

\* one more call is made
Called == calls < MaxCalls /\ calls' = calls + 1

Call(op, ok, a, b, err, ret, out) ==
    [op |-> op, ok |-> ok, a |-> a, b |-> b, err |-> err, ret |-> ret, out |-> out]

Total == Len(players)

\* add_player putting the new player at the top of the ladder
AddPlayerOnTop(name, user_id) ==
    /\ Total < MaxPlayers
    /\ players' = <<[name |-> name, user_id |-> user_id]>> \o players
    /\ UNCHANGED <<pairings, round, history, rule, state_type>>
    /\ last' = Call("add_player", TRUE, 0, 0, "", Len(players'), <<>>)

AddPlayerOk(name, user_id) ==
    /\ Total < MaxPlayers
    /\ players' = Append(players, [name |-> name, user_id |-> user_id])
    /\ UNCHANGED <<pairings, round, history, rule, state_type>>
    /\ last' = Call("add_player", TRUE, 0, 0, "", Len(players'), <<>>)

RemovePlayerOk(identifier) ==
    LET r == ResolvePlayerIndex(players, identifier)
    IN  /\ r.tag = "index"
        /\ players' = DelAt(players, r.idx)
        /\ UNCHANGED <<pairings, round, history, rule, state_type>>
        /\ last' = Call("remove_player", TRUE, r.idx + 1, 0, "", 0, <<>>)

RemovePlayerFail(identifier) ==
    LET r == ResolvePlayerIndex(players, identifier)
    IN  /\ r.tag # "index"
        /\ UNCHANGED <<players, pairings, round, history, rule, state_type>>
        /\ last' = Call("remove_player", FALSE, 0, 0,
                        IF r.tag = "ValueError" THEN "ValueError" ELSE "unresolved",
                        0, <<>>)

SetRankError(identifier, new_rank) ==
    IF Total = 0 THEN "empty"
    ELSE IF ~(1 <= new_rank /\ new_rank <= Total) THEN "bounds"
    ELSE IF ResolvePlayerIndex(players, identifier).tag = "ValueError" THEN "ValueError"
    ELSE IF ResolvePlayerIndex(players, identifier).tag = "none" THEN "unresolved"
    ELSE ""

\* set_rank exchanging the player with whoever holds the new rank
SetRankOkBySwap(identifier, new_rank) ==
    LET idx == ResolvePlayerIndex(players, identifier).idx
    IN  /\ SetRankError(identifier, new_rank) = ""
        /\ players' = Swap(players, idx, new_rank - 1)
        /\ UNCHANGED <<pairings, round, history, rule, state_type>>
        /\ last' = Call("set_rank", TRUE, idx + 1, new_rank, "", 0, <<>>)

SetRankOk(identifier, new_rank) ==
    LET idx == ResolvePlayerIndex(players, identifier).idx
    IN  /\ SetRankError(identifier, new_rank) = ""
        /\ players' = InsertAt(DelAt(players, idx), new_rank - 1, At(players, idx))
        /\ UNCHANGED <<pairings, round, history, rule, state_type>>
        /\ last' = Call("set_rank", TRUE, idx + 1, new_rank, "", 0, <<>>)

SetRankFail(identifier, new_rank) ==
    /\ SetRankError(identifier, new_rank) # ""
    /\ UNCHANGED <<players, pairings, round, history, rule, state_type>>
    /\ last' = Call("set_rank", FALSE, 0, 0, SetRankError(identifier, new_rank), 0, <<>>)

\* generate_pairings leaving the last player of an odd ladder unpaired
PairingsWithoutBye(i, n) ==
    [k \in 1 .. (n \div 2) |-> [first_rank |-> 2 * k - 1, second_rank |-> 2 * k]]

RECURSIVE PairingsFrom(_, _)
\* the while loop of generate_pairings from index i on a ladder of n players
PairingsFrom(i, n) ==
    IF i >= n THEN <<>>
    ELSE IF i + 1 < n
         THEN <<[first_rank |-> i + 1, second_rank |-> i + 2]>> \o PairingsFrom(i + 2, n)
         ELSE <<[first_rank |-> i + 1, second_rank |-> 0]>> \o PairingsFrom(i + 1, n)

\* [(p.first_rank, p.second_rank) for p in pairings]
AsTuples(prs) == [k \in 1 .. Len(prs) |-> <<prs[k].first_rank, prs[k].second_rank>>]

\* generate_pairings returning early, without counting a round, on an empty ladder
GeneratePairingsOkUnlessEmpty ==
    /\ round < MaxRound
    /\ pairings' = AsTuples(PairingsFrom(0, Total))
    /\ round' = IF Total = 0 THEN round ELSE round + 1
    /\ UNCHANGED <<players, history, rule, state_type>>
    /\ last' = Call("generate_pairings", TRUE, 0, 0, "", 0, PairingsFrom(0, Total))

GeneratePairingsOk ==
    /\ round < MaxRound
    /\ pairings' = AsTuples(PairingsFrom(0, Total))
    /\ round' = round + 1
    /\ UNCHANGED <<players, history, rule, state_type>>
    /\ last' = Call("generate_pairings", TRUE, 0, 0, "", 0, PairingsFrom(0, Total))

ValidRanks(winner_rank, loser_rank) ==
    /\ 1 <= winner_rank /\ winner_rank <= Total
    /\ 1 <= loser_rank /\ loser_rank <= Total

\* the history entry built after the ladder was reordered
HistoryEntryAfterReorder(timestamp, winner_rank, loser_rank, score, reporter_id) ==
    [ timestamp |-> timestamp,
      round |-> round,
      winner_rank_pre |-> winner_rank,
      loser_rank_pre |-> loser_rank,
      winner |-> At(players', winner_rank - 1).name,
      loser |-> At(players', loser_rank - 1).name,
      score |-> score,
      reporter_id |-> reporter_id,
      rule |-> rule ]

HistoryEntry(timestamp, winner_rank, loser_rank, score, reporter_id) ==
    [ timestamp |-> timestamp,
      round |-> round,
      winner_rank_pre |-> winner_rank,
      loser_rank_pre |-> loser_rank,
      winner |-> At(players, winner_rank - 1).name,
      loser |-> At(players, loser_rank - 1).name,
      score |-> score,
      reporter_id |-> reporter_id,
      rule |-> rule ]

\* history rebuilt from the new entry alone
AppendHistoryReplacing(hist, entry) == <<entry>>

\* self._history().append(history_entry)
AppendHistory(hist, entry) == Append(hist, entry)

\* SWAP_ONLY swapping whoever won
SwapOnlyAnyWinner(ps, winner_idx, loser_idx) ==
    IF winner_idx # loser_idx THEN Swap(ps, winner_idx, loser_idx) ELSE ps

\* SWAP_ONLY moving the winner into the loser's slot and shifting the others down
SwapOnlyByInsertion(ps, winner_idx, loser_idx) ==
    IF winner_idx > loser_idx
    THEN InsertAt(DelAt(ps, winner_idx), loser_idx, At(ps, winner_idx))
    ELSE ps

\* the SWAP_ONLY branch
SwapOnly(ps, winner_idx, loser_idx) ==
    IF winner_idx > loser_idx THEN Swap(ps, winner_idx, loser_idx) ELSE ps

\* the loser's index taken as it was before the winner's upward swap
LoserIdxUntracked(winner_idx, loser_idx) == loser_idx

\* the loser's index after the winner's upward swap, as the code tracks it
LoserIdxAfterWinnerSwap(winner_idx, loser_idx) ==
    IF winner_idx > 0 /\ loser_idx = winner_idx - 1 THEN winner_idx ELSE loser_idx

\* ONE_STEP_ALWAYS whose second swap lifts the loser over the player above
OneStepLoserUp(ps, winner_idx, loser_idx) ==
    LET up == IF winner_idx > 0 THEN Swap(ps, winner_idx - 1, winner_idx) ELSE ps
        li == LoserIdxAfterWinnerSwap(winner_idx, loser_idx)
    IN  IF li > 0 THEN Swap(up, li - 1, li) ELSE up

\* the ONE_STEP_ALWAYS branch
OneStepAlways(ps, winner_idx, loser_idx) ==
    LET up == IF winner_idx > 0 THEN Swap(ps, winner_idx - 1, winner_idx) ELSE ps
        li == LoserIdxAfterWinnerSwap(winner_idx, loser_idx)
    IN  IF li < Len(ps) - 1 THEN Swap(up, li + 1, li) ELSE up

\* every rule name let through to the rule branches
AnyRuleSupported == TRUE

SupportedRule == rule \in {"SWAP_ONLY", "ONE_STEP_ALWAYS"}

ApplyRule(ps, winner_idx, loser_idx) ==
    IF rule = "SWAP_ONLY" THEN SwapOnly(ps, winner_idx, loser_idx)
    ELSE OneStepAlways(ps, winner_idx, loser_idx)

RecordResultOk(timestamp, winner_rank, loser_rank, score, reporter_id) ==
    /\ Len(history) < MaxHistory
    /\ ValidRanks(winner_rank, loser_rank)
    /\ SupportedRule
    /\ players' = ApplyRule(players, winner_rank - 1, loser_rank - 1)
    /\ history' = AppendHistory(history,
                         HistoryEntry(timestamp, winner_rank, loser_rank, score, reporter_id))
    /\ UNCHANGED <<pairings, round, rule, state_type>>
    /\ last' = Call("record_result", TRUE, winner_rank, loser_rank, "", 0, <<>>)

\* record_result validating only after the pairings of the round were cleared
RecordResultFailAfterClearing(winner_rank, loser_rank) ==
    /\ ~(ValidRanks(winner_rank, loser_rank) /\ SupportedRule)
    /\ pairings' = <<>>
    /\ UNCHANGED <<players, round, history, rule, state_type>>
    /\ last' = Call("record_result", FALSE, winner_rank, loser_rank,
                    IF ~ValidRanks(winner_rank, loser_rank) THEN "Invalid ranks"
                    ELSE "Unsupported ladder rule",
                    0, <<>>)

RecordResultFail(winner_rank, loser_rank) ==
    /\ ~(ValidRanks(winner_rank, loser_rank) /\ SupportedRule)
    /\ UNCHANGED <<players, pairings, round, history, rule, state_type>>
    /\ last' = Call("record_result", FALSE, winner_rank, loser_rank,
                    IF ~ValidRanks(winner_rank, loser_rank) THEN "Invalid ranks"
                    ELSE "Unsupported ladder rule",
                    0, <<>>)

RecentHistoryOk(limit) ==
    /\ UNCHANGED <<players, pairings, round, history, rule, state_type>>
    /\ last' = Call("recent_history", TRUE, limit, 0, "", 0, SliceFrom(history, -limit))

SetRuleOk(value) ==
    /\ rule' = value
    /\ UNCHANGED <<players, pairings, round, history, state_type>>
    /\ last' = Call("rule", TRUE, 0, 0, "", 0, <<>>)

-----------------------------------------------------------------------------
(* The service with every call run to completion *)

Init ==
    /\ players = Member(Load(Absent), "players", <<>>)
    /\ pairings = Member(Load(Absent), "pairings", <<>>)
    /\ round = Member(Load(Absent), "round", 0)
    /\ history = Member(Load(Absent), "history", <<>>)
    /\ rule \in Rules
    /\ state_type = StateType(Load(Absent))
    /\ file = Absent
    /\ tmp = Absent
    /\ pc = "idle"
    /\ old = Absent
    /\ observed = Absent
    /\ calls = 0
    /\ last = Call("init", TRUE, 0, 0, "", 0, <<>>)

AddPlayer ==
    \E name \in Names, user_id \in UserIds :
        Called /\ AddPlayerOk(name, user_id) /\ Persist

RemovePlayer ==
    \E identifier \in Identifiers :
        \/ Called /\ RemovePlayerOk(identifier) /\ Persist
        \/ Called /\ RemovePlayerFail(identifier) /\ NoPersist

SetRank ==
    \E identifier \in Identifiers, new_rank \in RankInputs :
        \/ Called /\ SetRankOk(identifier, new_rank) /\ Persist
        \/ Called /\ SetRankFail(identifier, new_rank) /\ NoPersist

GeneratePairings == Called /\ GeneratePairingsOk /\ Persist

RecordResult ==
    \E winner_rank \in RankInputs, loser_rank \in RankInputs :
        \/ \E timestamp \in Timestamps, score \in Scores, reporter_id \in ReporterIds :
              /\ Called
              /\ RecordResultOk(timestamp, winner_rank, loser_rank, score, reporter_id)
              /\ Persist
        \/ Called /\ RecordResultFail(winner_rank, loser_rank) /\ NoPersist

RecentHistory == \E limit \in LimitInputs : Called /\ RecentHistoryOk(limit) /\ NoPersist

SetRule == \E value \in Rules : Called /\ SetRuleOk(value) /\ NoPersist

Next ==
    \/ AddPlayer
    \/ RemovePlayer
    \/ SetRank
    \/ GeneratePairings
    \/ RecordResult
    \/ RecentHistory
    \/ SetRule

Spec == Init /\ [][Next]_vars

-----------------------------------------------------------------------------
(* LadderRepository.save step by step, with crashes and a concurrent reader *)

\* the call's change to the in-memory state, made before self.save() is reached
MutatingCall ==
    \/ \E name \in Names, user_id \in UserIds : AddPlayerOk(name, user_id)
    \/ \E identifier \in Identifiers : RemovePlayerOk(identifier)
    \/ \E identifier \in Identifiers, new_rank \in RankInputs :
          SetRankOk(identifier, new_rank)
    \/ GeneratePairingsOk
    \/ \E winner_rank \in RankInputs, loser_rank \in RankInputs,
          timestamp \in Timestamps, score \in Scores, reporter_id \in ReporterIds :
          RecordResultOk(timestamp, winner_rank, loser_rank, score, reporter_id)

\* a successful mutating call reaches self.save(): save is entered
SaveEnter ==
    /\ pc = "idle"
    /\ calls < MaxSaves
    /\ calls' = calls + 1
    /\ MutatingCall
    /\ pc' = "open"
    /\ old' = file
    /\ UNCHANGED <<file, tmp, observed>>

\* the state written straight to the canonical path, with no temporary file
SaveOpenInPlace ==
    /\ pc = "open"
    /\ file' = [members |-> <<>>, closed |-> FALSE, exists |-> TRUE, json |-> "object"]
    /\ tmp' = [members |-> <<>>, closed |-> FALSE, exists |-> TRUE, json |-> "object"]
    /\ pc' = "dump"
    /\ UNCHANGED <<players, pairings, round, history, rule, state_type, old, observed, calls, last>>

\* open(tmp_path, "w"): the temporary file is created or truncated
SaveOpen ==
    /\ pc = "open"
    /\ tmp' = [members |-> <<>>, closed |-> FALSE, exists |-> TRUE, json |-> "object"]
    /\ pc' = "dump"
    /\ UNCHANGED <<players, pairings, round, history, rule, state_type, file, old, observed, calls, last>>

\* json.dump(state, fh): the next member reaches the temporary file, and after
\* the last one the closing brace
SaveDump ==
    LET all == Members(players, pairings, round, history)
        n == Len(tmp.members)
    IN  /\ pc = "dump"
        /\ ~tmp.closed
        /\ tmp' = IF n < Len(all)
                  THEN [tmp EXCEPT !.members = Append(@, all[n + 1])]
                  ELSE [tmp EXCEPT !.closed = TRUE]
        /\ UNCHANGED <<players, pairings, round, history, rule, state_type, file, pc, old, observed,
                       calls, last>>

\* os.replace(tmp_path, self.file_path), after the with block has closed the file
SaveReplace ==
    /\ pc = "dump"
    /\ tmp.closed
    /\ file' = tmp
    /\ tmp' = Absent
    /\ pc' = "idle"
    /\ UNCHANGED <<players, pairings, round, history, rule, state_type, old, observed, calls, last>>

\* the process dies; both files stay as they are
Crash ==
    /\ pc # "crashed"
    /\ pc' = "crashed"
    /\ last' = Call("crash", FALSE, 0, 0, pc, 0, <<>>)
    /\ UNCHANGED <<players, pairings, round, history, rule, state_type, file, tmp, old, observed, calls>>

\* LadderService.__init__ of the next process: the state is what load() returns
Restart ==
    \E value \in Rules :
        /\ pc = "crashed"
        /\ players' = Member(Load(file), "players", <<>>)
        /\ pairings' = Member(Load(file), "pairings", <<>>)
        /\ round' = Member(Load(file), "round", 0)
        /\ history' = Member(Load(file), "history", <<>>)
        /\ rule' = value
        /\ state_type' = StateType(Load(file))
        /\ pc' = "idle"
        /\ last' = Call("init", TRUE, 0, 0, "", 0, <<value>>)
        /\ UNCHANGED <<file, tmp, old, observed, calls>>

\* some other process opens and reads the canonical path
ReadCanonical ==
    /\ observed' = file
    /\ UNCHANGED <<players, pairings, round, history, rule, state_type, file, tmp, pc, old, calls, last>>

SaveNext ==
    \/ SaveEnter
    \/ SaveOpen
    \/ SaveDump
    \/ SaveReplace
    \/ Crash
    \/ Restart
    \/ ReadCanonical

SaveSpec == Init /\ [][SaveNext]_vars

-----------------------------------------------------------------------------
(* Whole calls, with the process ending between two of them and a new service
   constructed on the same file *)

ReopenCall ==
    /\ pc = "idle"
    /\ calls < MaxReopenCalls
    /\ Next

ReopenNext ==
    \/ ReopenCall
    \/ Crash
    \/ Restart

ReopenSpec == Init /\ [][ReopenNext]_vars

-----------------------------------------------------------------------------
(* A service constructed on whatever the canonical path holds *)

\* a file of no bytes
EmptyFile == [members |-> <<>>, closed |-> FALSE, exists |-> TRUE, json |-> "object"]

\* a state document cut off inside its second member
TruncatedDocument ==
    [members |-> << <<"players", <<>>>> >>, closed |-> FALSE, exists |-> TRUE,
     json |-> "object"]

\* the text "[]": well-formed JSON whose value is an array
ArrayDocument == [members |-> <<>>, closed |-> TRUE, exists |-> TRUE, json |-> "array"]

\* the text "[1,": an array cut off
TruncatedArray == [members |-> <<>>, closed |-> FALSE, exists |-> TRUE, json |-> "array"]

\* the text "{}"
EmptyObject == [members |-> <<>>, closed |-> TRUE, exists |-> TRUE, json |-> "object"]

\* an object holding a ladder and nothing else
PlayersOnly ==
    [members |-> << <<"players", <<[name |-> <<"A", "l">>, user_id |-> NoneId]>>>> >>,
     closed |-> TRUE, exists |-> TRUE, json |-> "object"]

\* a document an earlier process saved
SavedDocument ==
    Document(<<[name |-> <<"A", "l">>, user_id |-> 7],
               [name |-> <<"B", "o">>, user_id |-> NoneId]>>,
             << <<1, 2>> >>, 1, <<>>)

LoadFiles ==
    { Absent, EmptyFile, TruncatedDocument, ArrayDocument, TruncatedArray,
      EmptyObject, PlayersOnly, SavedDocument }

\* no process is running yet; the file is whatever was left on disk
LoadInit ==
    /\ file \in LoadFiles
    /\ players = <<>>
    /\ pairings = <<>>
    /\ round = 0
    /\ history = <<>>
    /\ rule = "SWAP_ONLY"
    /\ state_type = "dict"
    /\ tmp = Absent
    /\ pc = "crashed"
    /\ old = Absent
    /\ observed = Absent
    /\ calls = 0
    /\ last = Call("crash", FALSE, 0, 0, "idle", 0, <<>>)

\* a call that goes through self._players(), self._history() or self.round
StateOps ==
    { "add_player", "remove_player", "set_rank", "generate_pairings",
      "record_result", "recent_history" }

\* such a call on a state that is a dict
LoadedCall ==
    /\ pc = "idle"
    /\ state_type = "dict"
    /\ calls < MaxLoadCalls
    /\ \/ AddPlayer
       \/ RemovePlayer
       \/ SetRank
       \/ GeneratePairings
       \/ RecordResult
       \/ RecentHistory

\* such a call on a state that is a list: self._state.setdefault does not exist
CallOnList ==
    \E op \in StateOps :
        /\ pc = "idle"
        /\ state_type = "list"
        /\ calls < MaxLoadCalls
        /\ calls' = calls + 1
        /\ last' = Call(op, FALSE, 0, 0, "AttributeError", 0, <<>>)
        /\ UNCHANGED <<players, pairings, round, history, rule, state_type>>
        /\ NoPersist

\* the rule setter touches self._rule only
RuleCall ==
    /\ pc = "idle"
    /\ calls < MaxLoadCalls
    /\ SetRule

LoadNext ==
    \/ Restart
    \/ LoadedCall
    \/ CallOnList
    \/ RuleCall

LoadSpec == LoadInit /\ [][LoadNext]_vars

-----------------------------------------------------------------------------
(* _resolve_player_index on its own: any ladder, any token *)

\* a name that is itself a digit token, one that is a mention and one contained
\* in another name, beside the ordinary ones
ResolveNames == Names \cup { <<"2">>, <<"o">>, <<"<", "@", "!", "8", ">">> }

ResolveTokens == Identifiers \cup { <<"0">>, <<"0", "2">>, <<>> }

\* the ladders of at most MaxPlayers players
Ladders ==
    UNION { [1 .. n -> [name : ResolveNames, user_id : UserIds]] : n \in 0 .. MaxPlayers }

ResolveInit ==
    /\ players \in Ladders
    /\ pairings = <<>>
    /\ round = 0
    /\ history = <<>>
    /\ rule = "SWAP_ONLY"
    /\ state_type = "dict"
    /\ file = Absent
    /\ tmp = Absent
    /\ pc = "idle"
    /\ old = Absent
    /\ observed = Absent
    /\ calls = 0
    /\ last = Call("init", TRUE, 0, 0, "", 0, <<>>)

\* self._resolve_player_index(players, identifier): the rank found (0 for None),
\* or the exception raised
Resolve ==
    \E identifier \in ResolveTokens :
        LET r == ResolvePlayerIndex(players, identifier)
        IN  /\ calls < MaxResolves
            /\ calls' = calls + 1
            /\ last' = Call("resolve", r.tag # "ValueError",
                            IF r.tag = "index" THEN r.idx + 1 ELSE 0, 0,
                            IF r.tag = "ValueError" THEN "ValueError" ELSE "",
                            0, identifier)
            /\ UNCHANGED <<players, pairings, round, history, rule, state_type>>
            /\ NoPersist

ResolveNext == Resolve

ResolveSpec == ResolveInit /\ [][ResolveNext]_vars

-----------------------------------------------------------------------------
(* Properties *)

Range(seq) == {seq[k] : k \in 1 .. Len(seq)}

\* the multiset of the members of a sequence
BagOf(seq) == [x \in Range(seq) |-> Cardinality({k \in 1 .. Len(seq) : seq[k] = x})]

IsPrefix(s, t) == Len(s) <= Len(t) /\ SubSeq(t, 1, Len(s)) = s

MutatingOps == {"add_player", "remove_player", "set_rank", "generate_pairings", "record_result"}

RecordedOk(c) == c.op = "record_result" /\ c.ok

\* C1: the ladder is a sequence whose positions are exactly 1..N; set_rank and
\* record_result only permute it (same players, same multiplicities); N grows by 1
\* on add_player, shrinks by 1 on a successful remove_player and is otherwise kept.
C1_LadderContiguous ==
    [][ /\ DOMAIN players' = 1 .. Len(players')
        /\ (last'.op \in {"set_rank", "record_result"} => BagOf(players') = BagOf(players))
        /\ Len(players') = Len(players)
                           + (IF last'.op = "add_player" THEN 1
                              ELSE IF last'.op = "remove_player" /\ last'.ok THEN -1
                              ELSE 0) ]_vars

C1_Witness ==
    /\ RecordedOk(last)
    /\ rule = "ONE_STEP_ALWAYS"
    /\ Len(players) = 3
    /\ Cardinality(Range(players)) = 3

\* C2: a successful record_result makes the history exactly one entry longer, and
\* over every call the old history is a prefix of the new one; no other call
\* changes the history.
C2_HistoryAppendOnly ==
    [][ /\ IsPrefix(history, history')
        /\ Len(history') = Len(history) + (IF RecordedOk(last') THEN 1 ELSE 0) ]_vars

C2_Witness ==
    /\ RecordedOk(last)
    /\ Len(history) = 2

\* C3: the round counter grows by exactly 1 on every generate_pairings call, an
\* empty ladder included, and is kept by every other call.
C3_RoundCounts ==
    [][ round' = round + (IF last'.op = "generate_pairings" THEN 1 ELSE 0) ]_vars

C3_Witness ==
    /\ last.op = "generate_pairings"
    /\ Total = 0
    /\ round = 2

\* C4: record_result with a rank outside [1, N] fails with "Invalid ranks" whatever
\* the rule, and leaves ladder, history, round, pairings and the file as they were.
C4_InvalidRanksRejected ==
    [][ (last'.op = "record_result" /\ ~ValidRanks(last'.a, last'.b))
        => /\ ~last'.ok
           /\ last'.err = "Invalid ranks"
           /\ UNCHANGED <<players, pairings, round, history, file>> ]_vars

C4_Witness ==
    /\ last.op = "record_result"
    /\ last.err = "Invalid ranks"
    /\ last.a \in 1 .. Total
    /\ last.b = Total + 1
    /\ pairings # <<>>
    /\ file.exists

\* C5: whatever step save has reached, and after a crash at any step, the canonical
\* path holds a complete document (or does not exist yet): the one it held when
\* the save began until the rename, the new state after it; so does every read.
C5_SaveIsAtomic ==
    /\ file.exists => Parses(file) /\ Len(file.members) = 4
    /\ observed.exists => Parses(observed) /\ Len(observed.members) = 4
    /\ pc \in {"open", "dump"} => file = old
    /\ (last.op = "crash" /\ last.err \in {"open", "dump"}) => file = old
    /\ (pc = "idle" /\ last.op \in MutatingOps)
         => file = Document(players, pairings, round, history)

C5_Witness ==
    /\ pc = "crashed"
    /\ last.err = "dump"
    /\ tmp.exists /\ ~tmp.closed /\ Len(tmp.members) = 2
    /\ old.exists
    /\ observed = old
    /\ file = old
    /\ Member(file, "players", <<>>) # players

\* C6: when a mutating call returns successfully the file decodes to the in-memory
\* state; a call that fails, or that only reads, leaves the file as it was.
C6_WriteThrough ==
    [][ IF last'.ok /\ last'.op \in MutatingOps
        THEN /\ Parses(file')
             /\ Member(Load(file'), "players", <<>>) = players'
             /\ Member(Load(file'), "pairings", <<>>) = pairings'
             /\ Member(Load(file'), "round", 0) = round'
             /\ Member(Load(file'), "history", <<>>) = history'
        ELSE file' = file ]_vars

C6_Witness ==
    /\ last.op = "set_rank"
    /\ last.ok
    /\ last.a # last.b
    /\ Len(history) > 0
    /\ Member(file, "players", <<>>) = players

\* C7: under ONE_STEP_ALWAYS with distinct in-range ranks the winner ends exactly
\* one rank better than before, or stays at rank 1.
C7_WinnerUpOne ==
    [][ (RecordedOk(last') /\ rule = "ONE_STEP_ALWAYS" /\ last'.a # last'.b)
        => players'[IF last'.a > 1 THEN last'.a - 1 ELSE 1] = players[last'.a] ]_vars

\* C8: under ONE_STEP_ALWAYS with distinct in-range ranks the loser ends exactly
\* one rank worse than before, or stays at rank N.
C8_LoserDownOne ==
    [][ (RecordedOk(last') /\ rule = "ONE_STEP_ALWAYS" /\ last'.a # last'.b)
        => players'[IF last'.b < Total THEN last'.b + 1 ELSE Total] = players[last'.b] ]_vars

\* C9: under SWAP_ONLY a result with winner_rank < loser_rank keeps the ladder
\* order; the call only appends one history entry.
C9_SwapOnlyFavoriteWon ==
    [][ (RecordedOk(last') /\ rule = "SWAP_ONLY" /\ last'.a < last'.b)
        => /\ players' = players
           /\ Len(history') = Len(history) + 1
           /\ UNCHANGED <<pairings, round, rule>> ]_vars

C9_Witness ==
    /\ RecordedOk(last)
    /\ rule = "SWAP_ONLY"
    /\ last.a < last.b
    /\ players[last.a] # players[last.b]

\* C10: under SWAP_ONLY a result with winner_rank > loser_rank exchanges exactly
\* the two players: winner at loser_rank, loser at winner_rank, the others kept.
C10_SwapOnlyUpset ==
    [][ (RecordedOk(last') /\ rule = "SWAP_ONLY" /\ last'.a > last'.b)
        => players' = [k \in 1 .. Total |->
                          IF k = last'.b THEN players[last'.a]
                          ELSE IF k = last'.a THEN players[last'.b]
                          ELSE players[k]] ]_vars

C10_Witness ==
    /\ RecordedOk(last)
    /\ rule = "SWAP_ONLY"
    /\ last.a = 3
    /\ last.b = 1
    /\ Cardinality(Range(players)) = 3

\* C11: a successful set_rank(identifier, r) puts the resolved player at rank r and
\* keeps the relative order of the others: players strictly between the old and
\* the new rank shift by one slot toward the old rank, all others keep their rank.
C11_SetRankMoves ==
    [][ (last'.op = "set_rank" /\ last'.ok)
        => LET from == last'.a
               to == last'.b
           IN  /\ players'[to] = players[from]
               /\ DelAt(players', to - 1) = DelAt(players, from - 1)
               /\ \A k \in 1 .. Total :
                     /\ (from < k /\ k <= to) => players'[k - 1] = players[k]
                     /\ (to <= k /\ k < from) => players'[k + 1] = players[k]
                     /\ (k < from /\ k < to) => players'[k] = players[k]
                     /\ (k > from /\ k > to) => players'[k] = players[k] ]_vars

C11_Witness ==
    /\ last.op = "set_rank"
    /\ last.ok
    /\ last.a = 1
    /\ last.b = 3
    /\ Cardinality(Range(players)) = 3

\* C12: set_rank returns (False, message) when the ladder is empty, when new_rank
\* is outside [1, N] or when the identifier does not resolve, and then ladder,
\* pairings, round, history and file are as before; it succeeds in no such case.
C12_SetRankFailsCleanly ==
    [][ last'.op = "set_rank"
        => IF last'.ok
           THEN Total > 0 /\ last'.b \in 1 .. Total /\ last'.a \in 1 .. Total
           ELSE /\ last'.err \in {"empty", "bounds", "unresolved"}
                /\ UNCHANGED <<players, pairings, round, history, file>> ]_vars

\* C13: remove_player deletes exactly the resolved player (the players below move
\* up one rank, the players above keep theirs) and returns True; when the
\* identifier does not resolve it returns False and changes nothing.
C13_RemovePlayer ==
    [][ last'.op = "remove_player"
        => IF last'.ok
           THEN players' = [k \in 1 .. (Total - 1) |->
                               IF k < last'.a THEN players[k] ELSE players[k + 1]]
           ELSE /\ last'.err = "unresolved"
                /\ UNCHANGED <<players, pairings, round, history, file>> ]_vars

\* C14: add_player always succeeds; the new player is at the bottom, the returned
\* rank is the new number of players, and every player already on the ladder
\* keeps the rank it had.
C14_AddPlayerAppends ==
    [][ last'.op = "add_player"
        => /\ last'.ok
           /\ Len(players') = Total + 1
           /\ last'.ret = Len(players')
           /\ players'[last'.ret] \in [name : Names, user_id : UserIds]
           /\ \A k \in 1 .. Total : players'[k] = players[k] ]_vars

C14_Witness ==
    /\ last.op = "add_player" /\ last.ok /\ last.ret = 3
    /\ Len(players) = 3
    /\ players[1].name # players[3].name

\* C15: generate_pairings on N players returns and stores, in place of the
\* earlier pairings, (1,2),(3,4),... followed by (N,0) iff N is odd: ceil(N/2)
\* pairings, every rank in exactly one of them, one bye iff N is odd, and nothing
\* but N decides the result.
C15_PairingsByRank ==
    last.op = "generate_pairings"
    => LET expected == [k \in 1 .. ((Total + 1) \div 2) |->
                           <<2 * k - 1, IF 2 * k <= Total THEN 2 * k ELSE 0>>]
           byes == {k \in 1 .. Len(pairings) : pairings[k][2] = 0}
       IN  /\ last.ok
           /\ AsTuples(last.out) = expected
           /\ pairings = expected
           /\ \A r \in 1 .. Total :
                 Cardinality({k \in 1 .. Len(pairings) :
                                 pairings[k][1] = r \/ pairings[k][2] = r}) = 1
           /\ \A k \in 1 .. Len(pairings) : pairings[k][1] # pairings[k][2]
           /\ Cardinality(byes) = Total % 2

C15_Witness ==
    /\ last.op = "generate_pairings" /\ last.ok
    /\ Total = 3
    /\ pairings = << <<1, 2>>, <<3, 0>> >>

\* C16: the entry appended by a successful record_result(w, l) holds
\* winner_rank_pre = w, loser_rank_pre = l, the names of the players at ranks w
\* and l before the reorder, and the round counter and the rule of that moment.
C16_EntryIsPreMatch ==
    [][ (last'.op = "record_result" /\ last'.ok)
        => LET entry == history'[Len(history')]
           IN  /\ entry.winner_rank_pre = last'.a
               /\ entry.loser_rank_pre = last'.b
               /\ entry.winner = players[last'.a].name
               /\ entry.loser = players[last'.b].name
               /\ entry.round = round
               /\ entry.rule = rule ]_vars

C16_Witness ==
    /\ last.op = "record_result" /\ last.ok /\ last.a = 2 /\ last.b = 1
    /\ Len(history) > 0
    /\ history[Len(history)].winner # history[Len(history)].loser
    /\ players[1].name = history[Len(history)].winner
    /\ players[2].name = history[Len(history)].loser

\* C17: for a history of length H and any limit >= 0, recent_history(limit)
\* returns the last min(limit, H) entries, oldest first, and changes neither the
\* state nor the file.
C17_RecentHistoryWindow ==
    [][ last'.op = "recent_history"
        => LET H == Len(history)
               limit == last'.a
               n == IF limit < H THEN limit ELSE H
           IN  /\ last'.out = SubSeq(history, H - n + 1, H)
               /\ UNCHANGED <<players, pairings, round, history, rule, file>> ]_vars

\* C19: no two players on the ladder share a user_id other than None, whatever
\* calls were made.
C19_UserIdUnique ==
    \A i, j \in 1 .. Len(players) :
        (i # j /\ players[i].user_id = players[j].user_id)
            => players[i].user_id = NoneId

\* C20: an all-digit token resolves to the player at rank int(token) when that
\* is within 1..N and to nobody otherwise; it is never matched against names,
\* even when a player's name equals or contains the token.
C20_DigitTokenIsRank ==
    (last.op = "resolve" /\ IsDigit(Strip(last.out)))
    => LET text == Strip(last.out)
           inRange == IntAccepts(text) /\ 1 <= ToInt(text) /\ ToInt(text) <= Total
       IN  /\ last.ok
           /\ last.a = IF inRange THEN ToInt(text) ELSE 0

\* C18: whenever the file is absent or its content is not a state object, load()
\* raises nothing and returns a fresh empty state, and the service constructed on
\* it runs its operations normally.
C18_LoadAbsorbsBadFiles ==
    pc = "idle"
    => /\ state_type = "dict"
       /\ last.err # "AttributeError"
       /\ (last.op = "init" /\ ~(Parses(file) /\ file.json = "object"))
             => /\ players = <<>>
                /\ pairings = <<>>
                /\ round = 0
                /\ history = <<>>

\* C21: a token of mention form around the number k resolves to a player whose
\* user_id is k, and to nobody when no player has that user_id; names are never
\* consulted.
C21_MentionIsUserId ==
    (last.op = "resolve" /\ MentionDigits(Strip(last.out)) # <<>>)
    => LET k == ToInt(MentionDigits(Strip(last.out)))
           linked == {i \in 1 .. Total : players[i].user_id = k}
       IN  /\ last.ok
           /\ IF linked # {} THEN last.a \in linked ELSE last.a = 0

C21_Witness ==
    /\ last.op = "resolve" /\ last.out = <<"<", "@", "7", ">">>
    /\ last.a = 2
    /\ players[1].user_id = NoneId
    /\ players[1].name = <<"<", "@", "!", "8", ">">>

\* C22 as stated: a token that is neither all digits nor a mention resolves to
\* the highest-ranked player whose name equals it without regard to case; when
\* no name equals it, to the player whose name contains it if exactly one does,
\* and to nobody if none or several do.
C22_NameMatchAnyToken ==
    LET text == Strip(last.out)
        lowered == Lower(text)
        exact == {i \in 1 .. Total : Lower(players[i].name) = lowered}
        containing == {i \in 1 .. Total : Contains(lowered, Lower(players[i].name))}
    IN  (last.op = "resolve" /\ ~IsDigit(text) /\ MentionDigits(text) = <<>>)
        => /\ last.ok
           /\ last.a = IF exact # {} THEN MinOf(exact)
                       ELSE IF Cardinality(containing) = 1 THEN MinOf(containing)
                       ELSE 0

\* C22 amended: the same for a token that is not empty once surrounding
\* whitespace is removed; an empty token resolves to nobody.
C22_NameMatch ==
    LET text == Strip(last.out)
        lowered == Lower(text)
        exact == {i \in 1 .. Total : Lower(players[i].name) = lowered}
        containing == {i \in 1 .. Total : Contains(lowered, Lower(players[i].name))}
    IN  (last.op = "resolve" /\ ~IsDigit(text) /\ MentionDigits(text) = <<>>)
        => /\ last.ok
           /\ last.a = IF Len(text) = 0 THEN 0
                       ELSE IF exact # {} THEN MinOf(exact)
                       ELSE IF Cardinality(containing) = 1 THEN MinOf(containing)
                       ELSE 0

C22_Witness ==
    /\ last.op = "resolve" /\ last.out = <<"o">>
    /\ Total = 3
    /\ players[1].name = <<"B", "o">>
    /\ players[2].name = <<"o">>
    /\ players[3].name = <<"o">>
    /\ last.a = 2

\* C23: under a rule that is neither SWAP_ONLY nor ONE_STEP_ALWAYS, record_result
\* with ranks in range raises the unsupported-rule error, applies no rule, and
\* leaves ladder, history, round, pairings and file as they were.
C23_UnsupportedRuleRejected ==
    [][ (/\ last'.op = "record_result"
         /\ rule \notin {"SWAP_ONLY", "ONE_STEP_ALWAYS"}
         /\ last'.a \in 1 .. Total /\ last'.b \in 1 .. Total)
        => /\ ~last'.ok
           /\ last'.err = "Unsupported ladder rule"
           /\ UNCHANGED <<players, pairings, round, history, file>> ]_vars

C23_Witness ==
    /\ last.op = "record_result" /\ ~last.ok
    /\ last.err = "Unsupported ladder rule"
    /\ rule = "BOGUS"
    /\ last.a = 2 /\ last.b = 1
    /\ Total >= 2

\* C24: under ONE_STEP_ALWAYS with winner_rank # loser_rank, the downward swap
\* moves the player who held loser_rank before the match, also when the
\* winner's upward swap has just displaced that player, and nobody else.
\* Players are told apart by their records, so the ladder's records are distinct.
C24_DownSwapOnLoser ==
    [][ (/\ last'.op = "record_result" /\ last'.ok
         /\ rule = "ONE_STEP_ALWAYS"
         /\ last'.a # last'.b
         /\ Cardinality(Range(players)) = Total)
        => LET w == last'.a
               loser == players[last'.b]
               up == IF w > 1 THEN Swap(players, w - 2, w - 1) ELSE players
               pos == CHOOSE k \in 1 .. Total : up[k] = loser
           IN  players' = IF pos < Total THEN Swap(up, pos - 1, pos) ELSE up ]_vars

C24_Witness ==
    /\ last.op = "record_result" /\ last.ok
    /\ rule = "ONE_STEP_ALWAYS"
    /\ last.a = 2 /\ last.b = 1
    /\ Total = 3
    /\ Cardinality(Range(players)) = 3
    /\ players[3].name = history[Len(history)].loser
    /\ players[1].name = history[Len(history)].winner
    /\ players[3].name # players[1].name

\* C26: under SWAP_ONLY and under ONE_STEP_ALWAYS, a successful record_result
\* with distinct ranks leaves the winner at its pre-match rank or above and the
\* loser at its pre-match rank or below.
C26_NoWrongWayMove ==
    [][ (/\ last'.op = "record_result" /\ last'.ok
         /\ last'.a # last'.b
         /\ Cardinality(Range(players)) = Total)
        => LET winnerNow == CHOOSE k \in 1 .. Total : players'[k] = players[last'.a]
               loserNow == CHOOSE k \in 1 .. Total : players'[k] = players[last'.b]
           IN  /\ Range(players') = Range(players)
               /\ winnerNow <= last'.a
               /\ loserNow >= last'.b ]_vars

C26_Witness ==
    /\ last.op = "record_result" /\ last.ok
    /\ rule = "ONE_STEP_ALWAYS"
    /\ last.a = 3 /\ last.b = 1
    /\ Total = 3
    /\ Cardinality(Range(players)) = 3

\* C25: a service constructed on the same file after completed operations starts
\* with the players (in order), pairings, round and history the previous one
\* held; the rule is no member of the file and is the constructor's argument,
\* whatever the rule was before.
C25_ReopenRestoresState ==
    [][ last'.op = "init"
        => /\ players' = players
           /\ pairings' = pairings
           /\ round' = round
           /\ history' = history
           /\ rule' = last'.out[1]
           /\ \A k \in 1 .. Len(file.members) : file.members[k][1] # "rule" ]_vars

C25_Witness ==
    /\ last.op = "init"
    /\ Len(players) = 1
    /\ pairings = << <<1, 0>> >>
    /\ round = 1
    /\ Len(history) = 1
    /\ history[1].rule = "SWAP_ONLY"
    /\ rule = "BOGUS"

====
